---- MODULE Spec2Model ----
(***************************************************************************)
(* Rule-based ASR post-correction (src/src/rules.py): the five rewrite     *)
(* rules and generate_candidates, which composes them into a capped,       *)
(* de-duplicated candidate list.  Texts are TLA+ strings; every regular    *)
(* expression of the source is modelled by a matcher that returns the end  *)
(* of the match Python's backtracking engine finds at a position, and by   *)
(* a left-to-right, non-overlapping substitution scan (re.sub).            *)
(***************************************************************************)
EXTENDS Integers, Sequences, FiniteSets, TLC

VARIABLES text, names_lex, matcher_ok, pc, ret, candidates, c1, c2, c3, out, prev_out, runs

vars == <<text, names_lex, matcher_ok, pc, ret, candidates, c1, c2, c3, out, prev_out, runs>>

-----------------------------------------------------------------------------
(* Characters and strings                                                  *)

LOWER == "abcdefghijklmnopqrstuvwxyz"

UPPER == "ABCDEFGHIJKLMNOPQRSTUVWXYZ"

DIGITS == "0123456789"

\* s[a-1:b] of Python: positions a..b, 1-based and inclusive; empty when the range is.
Sub(s, a, b) == IF a > b \/ a > Len(s) \/ b < 1 THEN ""
                ELSE SubSeq(s, IF a < 1 THEN 1 ELSE a, IF b > Len(s) THEN Len(s) ELSE b)

\* The character at position p ("" outside the string).
Ch(s, p) == IF p < 1 \/ p > Len(s) THEN "" ELSE SubSeq(s, p, p)

\* Position of character c in alphabet a, 0 when absent.
IndexIn(a, c) == IF \E i \in 1..Len(a) : SubSeq(a, i, i) = c
                 THEN CHOOSE i \in 1..Len(a) : SubSeq(a, i, i) = c
                 ELSE 0

IsLowerCh(c) == IndexIn(LOWER, c) > 0

IsUpperCh(c) == IndexIn(UPPER, c) > 0

\* [a-zA-Z]
IsAlpha(c) == IsLowerCh(c) \/ IsUpperCh(c)

\* \d
IsDigitCh(c) == IndexIn(DIGITS, c) > 0

\* \w
IsWordCh(c) == IsAlpha(c) \/ IsDigitCh(c) \/ c = "_"

\* \s (the texts of the model hold no other whitespace than the space)
IsSpace(c) == c = " "

\* str.lower / str.upper on one character
LowerCh(c) == IF IsUpperCh(c) THEN Ch(LOWER, IndexIn(UPPER, c)) ELSE c

UpperCh(c) == IF IsLowerCh(c) THEN Ch(UPPER, IndexIn(LOWER, c)) ELSE c

RECURSIVE LowerFrom(_, _)
LowerFrom(s, p) == IF p > Len(s) THEN "" ELSE LowerCh(Ch(s, p)) \o LowerFrom(s, p + 1)

\* str.lower
Lower(s) == LowerFrom(s, 1)

\* \b at position p: between character p-1 and character p.
WordBoundary(s, p) == IsWordCh(Ch(s, p - 1)) # IsWordCh(Ch(s, p))

\* The literal w matches at p, case-insensitively (re.IGNORECASE).
StartsWithCI(s, p, w) == p + Len(w) - 1 <= Len(s) /\ Lower(Sub(s, p, p + Len(w) - 1)) = w

\* The literal w matches at p.
StartsWith(s, p, w) == p + Len(w) - 1 <= Len(s) /\ Sub(s, p, p + Len(w) - 1) = w

\* The position after the longest run of whitespace starting at p (\s* greedy).
RECURSIVE SkipSpaces(_, _)
SkipSpaces(s, p) == IF p <= Len(s) /\ IsSpace(Ch(s, p)) THEN SkipSpaces(s, p + 1) ELSE p

\* The position after the longest run of non-whitespace starting at p.
RECURSIVE SkipNonSpaces(_, _)
SkipNonSpaces(s, p) == IF p <= Len(s) /\ ~IsSpace(Ch(s, p)) THEN SkipNonSpaces(s, p + 1) ELSE p

\* The position of the last non-whitespace character at or before p, 0 when none.
RECURSIVE LastNonSpace(_, _)
LastNonSpace(s, p) == IF p >= 1 /\ IsSpace(Ch(s, p)) THEN LastNonSpace(s, p - 1) ELSE p

\* str.strip
Strip(s) == Sub(s, SkipSpaces(s, 1), LastNonSpace(s, Len(s)))

RECURSIVE SplitFrom(_, _)
SplitFrom(s, p) == IF p > Len(s) THEN <<>>
                   ELSE IF IsSpace(Ch(s, p)) THEN SplitFrom(s, p + 1)
                   ELSE <<Sub(s, p, SkipNonSpaces(s, p) - 1)>> \o SplitFrom(s, SkipNonSpaces(s, p))

\* str.split(): the maximal runs of non-whitespace, in order.
Split(s) == SplitFrom(s, 1)

RECURSIVE JoinFrom(_, _)
JoinFrom(tokens, i) == IF i > Len(tokens) THEN ""
                       ELSE IF i = Len(tokens) THEN tokens[i]
                       ELSE tokens[i] \o " " \o JoinFrom(tokens, i + 1)

\* ' '.join(tokens)
Join(tokens) == JoinFrom(tokens, 1)

RECURSIVE RemoveSpacesFrom(_, _)
RemoveSpacesFrom(s, p) == IF p > Len(s) THEN ""
                          ELSE IF Ch(s, p) = " " THEN RemoveSpacesFrom(s, p + 1)
                          ELSE Ch(s, p) \o RemoveSpacesFrom(s, p + 1)

\* str.replace(' ', ''), as applied to a matched group
RemoveSpaces(s) == RemoveSpacesFrom(s, 1)

\* The first alternative of alts, from index i on, that matches at p
\* (case-insensitively), 0 when none: the regex engine tries them in order.
NextAlt(s, p, alts, i) ==
    IF \E j \in i..Len(alts) : StartsWithCI(s, p, alts[j])
    THEN CHOOSE j \in i..Len(alts) :
             StartsWithCI(s, p, alts[j]) /\ \A k \in i..(j - 1) : ~StartsWithCI(s, p, alts[k])
    ELSE 0

\* The first alternative of alts that matches at p and ends on a word boundary,
\* 0 when none: (w1|w2|..)\b
RECURSIVE FirstAltFrom(_, _, _, _)
FirstAltFrom(s, p, alts, i) ==
    LET j == NextAlt(s, p, alts, i)
    IN IF j = 0 THEN 0
       ELSE IF WordBoundary(s, p + Len(alts[j])) THEN j
       ELSE FirstAltFrom(s, p, alts, j + 1)

FirstAlt(s, p, alts) == FirstAltFrom(s, p, alts, 1)

-----------------------------------------------------------------------------
(* 1. normalize_email                                                      *)

\* One repetition of \b[a-zA-Z]\s at q.
SpelledUnit(s, q) == WordBoundary(s, q) /\ IsAlpha(Ch(s, q)) /\ IsSpace(Ch(s, q + 1))

\* The position after the longest run of such repetitions starting at q.
RECURSIVE SkipSpelled(_, _)
SkipSpelled(s, q) == IF q <= Len(s) /\ SpelledUnit(s, q) THEN SkipSpelled(s, q + 2) ELSE q

\* (?:\b[a-zA-Z]\s){2,} at p: the end of the match (exclusive), 0 when none.
MatchSpelled(s, p) == IF SkipSpelled(s, p) - p >= 4 THEN SkipSpelled(s, p) ELSE 0

\* re.sub of the spelled-letter pattern: the spaces of each match are removed.
RECURSIVE CollapseSpelledFrom(_, _)
CollapseSpelledFrom(s, p) ==
    IF p > Len(s) THEN ""
    ELSE IF MatchSpelled(s, p) > p
    THEN RemoveSpaces(Sub(s, p, MatchSpelled(s, p) - 1)) \o CollapseSpelledFrom(s, MatchSpelled(s, p))
    ELSE Ch(s, p) \o CollapseSpelledFrom(s, p + 1)

CollapseSpelled(s) == CollapseSpelledFrom(s, 1)

EMAIL_TOKEN_PATTERNS == << <<(<<"at the rate", "at">>), "@">>,
                           <<(<<"dot">>), ".">>,
                           <<(<<"underscore">>), "_">>,
                           <<(<<"dash", "minus">>), "-">>,
                           <<(<<"plus">>), "+">> >>

COMMON_TLDS == <<"com", "net", "org", "in", "co", "gov", "edu">>

\* \s*\b(w1|w2|..)\b\s* at p: the end of the match (exclusive), 0 when none.
MatchToken(s, p, alts) ==
    LET q == SkipSpaces(s, p)
        i == FirstAlt(s, q, alts)
    IN IF WordBoundary(s, q) /\ i > 0 THEN SkipSpaces(s, q + Len(alts[i])) ELSE 0

\* re.sub(pat, rep, s) for one entry of EMAIL_TOKEN_PATTERNS
RECURSIVE SubTokenFrom(_, _, _, _)
SubTokenFrom(s, p, alts, rep) ==
    IF p > Len(s) THEN ""
    ELSE IF MatchToken(s, p, alts) > p THEN rep \o SubTokenFrom(s, MatchToken(s, p, alts), alts, rep)
    ELSE Ch(s, p) \o SubTokenFrom(s, p + 1, alts, rep)

\* the loop over EMAIL_TOKEN_PATTERNS, from entry i on (no pattern matches in the
\* empty string, which every re.sub returns as it is)
RECURSIVE ApplyTokenPatternsFrom(_, _)
ApplyTokenPatternsFrom(s, i) ==
    IF i > Len(EMAIL_TOKEN_PATTERNS) \/ s = "" THEN s
    ELSE ApplyTokenPatternsFrom(
             SubTokenFrom(s, 1, EMAIL_TOKEN_PATTERNS[i][1], EMAIL_TOKEN_PATTERNS[i][2]), i + 1)

ApplyTokenPatterns(s) == ApplyTokenPatternsFrom(s, 1)

\* ([a-zA-Z0-9])(tld)\b matches at p
TldHit(s, p, tld) == /\ (IsAlpha(Ch(s, p)) \/ IsDigitCh(Ch(s, p)))
                     /\ StartsWith(s, p + 1, tld)
                     /\ WordBoundary(s, p + 1 + Len(tld))

\* re.sub(r'([a-zA-Z0-9])(tld)\b', r'\1.\2', s)
RECURSIVE SubTldFrom(_, _, _)
SubTldFrom(s, p, tld) ==
    IF p > Len(s) THEN ""
    ELSE IF TldHit(s, p, tld) THEN Ch(s, p) \o "." \o tld \o SubTldFrom(s, p + 1 + Len(tld), tld)
    ELSE Ch(s, p) \o SubTldFrom(s, p + 1, tld)

\* the loop over COMMON_TLDS, from entry i on (nothing matches in the empty string)
RECURSIVE GlueTldsFrom(_, _)
GlueTldsFrom(s, i) == IF i > Len(COMMON_TLDS) \/ s = "" THEN s
                      ELSE GlueTldsFrom(SubTldFrom(s, 1, COMMON_TLDS[i]), i + 1)

GlueTlds(s) == GlueTldsFrom(s, 1)

\* [@\._\-]
IsEmailSymbol(c) == c \in {"@", ".", "_", "-"}

\* re.sub(r'\s*([@\._\-])\s*', r'\1', s)
RECURSIVE CollapseAroundSymbolsFrom(_, _)
CollapseAroundSymbolsFrom(s, p) ==
    IF p > Len(s) THEN ""
    ELSE IF IsEmailSymbol(Ch(s, SkipSpaces(s, p)))
    THEN Ch(s, SkipSpaces(s, p))
         \o CollapseAroundSymbolsFrom(s, SkipSpaces(s, SkipSpaces(s, p) + 1))
    ELSE Ch(s, p) \o CollapseAroundSymbolsFrom(s, p + 1)

CollapseAroundSymbols(s) == CollapseAroundSymbolsFrom(s, 1)

normalize_email(t) == CollapseAroundSymbols(GlueTlds(ApplyTokenPatterns(CollapseSpelled(Lower(t)))))

-----------------------------------------------------------------------------
(* 2. convert_words_to_numbers                                             *)

\* word_to_num, in the order of the dict (the order of the regex alternation)
UNIT_WORDS == <<"zero", "one", "two", "three", "four", "five", "six", "seven", "eight", "nine",
                "ten", "eleven", "twelve", "thirteen", "fourteen", "fifteen", "sixteen",
                "seventeen", "eighteen", "nineteen", "twenty", "thirty", "forty", "fifty",
                "sixty", "seventy", "eighty", "ninety">>

UNIT_VALUES == <<0, 1, 2, 3, 4, 5, 6, 7, 8, 9, 10, 11, 12, 13, 14, 15, 16, 17, 18, 19,
                 20, 30, 40, 50, 60, 70, 80, 90>>

\* multipliers, in the order of the dict
MULT_WORDS == <<"hundred", "thousand", "lakh", "crore">>

MULT_VALUES == <<100, 1000, 100000, 10000000>>

\* list(word_to_num.keys()) + list(multipliers.keys())
NUMBER_WORDS == UNIT_WORDS \o MULT_WORDS

\* the alternation of num_pattern: the number words, then 'and'
RUN_WORDS == NUMBER_WORDS \o <<"and">>

\* Index of word w in the sequence ws, 0 when absent (dict lookup).
WordIndex(ws, w) == IF \E i \in 1..Len(ws) : ws[i] = w
                    THEN CHOOSE i \in 1..Len(ws) : ws[i] = w
                    ELSE 0

\* `words` of the source is non-empty: \b(?:word)\b matches somewhere in the text.
HasNumberWord(s) ==
    \E p \in 1..Len(s) : WordBoundary(s, p) /\ FirstAlt(s, p, NUMBER_WORDS) > 0

\* The position after the longest run of letters starting at p ([a-zA-Z]+ greedy).
RECURSIVE SkipAlpha(_, _)
SkipAlpha(s, p) == IF p <= Len(s) /\ IsAlpha(Ch(s, p)) THEN SkipAlpha(s, p + 1) ELSE p

\* group(2) repeated n times, joined by single spaces
RECURSIVE Repeat(_, _)
Repeat(w, n) == IF n <= 1 THEN w ELSE w \o " " \o Repeat(w, n - 1)

\* \b(kw)\s*([a-zA-Z]+)\b matches at p
RepeatHit(s, p, kw) ==
    /\ WordBoundary(s, p) /\ StartsWithCI(s, p, kw)
    /\ SkipAlpha(s, SkipSpaces(s, p + Len(kw))) > SkipSpaces(s, p + Len(kw))
    /\ WordBoundary(s, SkipAlpha(s, SkipSpaces(s, p + Len(kw))))

\* re.sub(r'\b(kw)\s*([a-zA-Z]+)\b', group(2) repeated n times): 'double' and 'triple'
RECURSIVE SubRepeatFrom(_, _, _, _)
SubRepeatFrom(s, p, kw, n) ==
    IF p > Len(s) THEN ""
    ELSE IF RepeatHit(s, p, kw)
    THEN LET a == SkipSpaces(s, p + Len(kw))
             e == SkipAlpha(s, a)
         IN Repeat(Sub(s, a, e - 1), n) \o SubRepeatFrom(s, e, kw, n)
    ELSE Ch(s, p) \o SubRepeatFrom(s, p + 1, kw, n)

\* re.sub(r'\b(w1|w2|..)\b', rep, s): a word between two boundaries, first alternative first
RECURSIVE SubWordFrom(_, _, _, _)
SubWordFrom(s, p, alts, rep) ==
    IF p > Len(s) THEN ""
    ELSE IF WordBoundary(s, p) /\ FirstAlt(s, p, alts) > 0
    THEN rep \o SubWordFrom(s, p + Len(alts[FirstAlt(s, p, alts)]), alts, rep)
    ELSE Ch(s, p) \o SubWordFrom(s, p + 1, alts, rep)

\* The idiom expansion: double, triple, then oh/o -> zero.
ExpandIdioms(s) ==
    SubWordFrom(SubRepeatFrom(SubRepeatFrom(s, 1, "double", 2), 1, "triple", 3),
                1, <<"oh", "o">>, "zero")

\* _text2int, from word i on, with the accumulators current and result
RECURSIVE text2intFrom(_, _, _, _)
text2intFrom(num_words, i, current, result) ==
    IF i > Len(num_words) THEN result + current
    ELSE LET u == WordIndex(UNIT_WORDS, num_words[i])
             m == WordIndex(MULT_WORDS, num_words[i])
         IN IF u > 0 THEN text2intFrom(num_words, i + 1, current + UNIT_VALUES[u], result)
            ELSE IF m > 0
            THEN IF MULT_VALUES[m] >= 1000
                 THEN text2intFrom(num_words, i + 1, 0, result + current * MULT_VALUES[m])
                 ELSE text2intFrom(num_words, i + 1, current * MULT_VALUES[m], result)
            ELSE text2intFrom(num_words, i + 1, current, result)

text2int(num_words) == text2intFrom(num_words, 1, 0, 0)

\* str(n) for n >= 0
RECURSIVE IntToStr(_)
IntToStr(n) == IF n < 10 THEN Ch(DIGITS, n + 1)
               ELSE IntToStr(n \div 10) \o Ch(DIGITS, (n % 10) + 1)

\* replace_num_phrase: the phrase, lower-cased and split, through _text2int and str
replace_num_phrase(phrase) == IntToStr(text2int(Split(Lower(phrase))))

\* \b((?:word|and)\s*)+\b: the end (exclusive) of the match the backtracking engine
\* finds, 0 when none.  RunAlts is the state at q after n units (n capped at 1):
\* another unit is tried first, its alternatives in order from i and its \s*
\* longest first (RunSpaces, from k down to lo); then the exit through the final \b.
RECURSIVE RunAlts(_, _, _, _)
RECURSIVE RunSpaces(_, _, _)
RunAlts(s, q, n, i) ==
    LET j == NextAlt(s, q, RUN_WORDS, i)
    IN IF j = 0 THEN (IF n >= 1 /\ WordBoundary(s, q) THEN q ELSE 0)
       ELSE LET r == RunSpaces(s, q + Len(RUN_WORDS[j]), SkipSpaces(s, q + Len(RUN_WORDS[j])))
            IN IF r > 0 THEN r ELSE RunAlts(s, q, n, j + 1)

RunSpaces(s, lo, k) ==
    LET r == RunAlts(s, k, 1, 1)
    IN IF r > 0 THEN r ELSE IF k <= lo THEN 0 ELSE RunSpaces(s, lo, k - 1)

\* num_pattern at p
MatchRun(s, p) == IF WordBoundary(s, p) THEN RunAlts(s, p, 0, 1) ELSE 0

\* re.sub(num_pattern, replace_num_phrase, s)
RECURSIVE SubNumberPhrasesFrom(_, _)
SubNumberPhrasesFrom(s, p) ==
    IF p > Len(s) THEN ""
    ELSE IF MatchRun(s, p) > p
    THEN replace_num_phrase(Sub(s, p, MatchRun(s, p) - 1)) \o SubNumberPhrasesFrom(s, MatchRun(s, p))
    ELSE Ch(s, p) \o SubNumberPhrasesFrom(s, p + 1)

\* the loop "Replace single digits last": zero..nine in order, from digit word i on
RECURSIVE SubSingleDigitsFrom(_, _)
SubSingleDigitsFrom(s, i) ==
    IF i > 10 THEN s
    ELSE SubSingleDigitsFrom(SubWordFrom(s, 1, <<UNIT_WORDS[i]>>, Ch(DIGITS, i)), i + 1)

\* s.replace("  ", " "): one left-to-right pass over non-overlapping pairs
RECURSIVE ReplaceDoubleSpaceFrom(_, _)
ReplaceDoubleSpaceFrom(s, p) ==
    IF p > Len(s) THEN ""
    ELSE IF Ch(s, p) = " " /\ Ch(s, p + 1) = " " THEN " " \o ReplaceDoubleSpaceFrom(s, p + 2)
    ELSE Ch(s, p) \o ReplaceDoubleSpaceFrom(s, p + 1)

convert_words_to_numbers(t) ==
    IF ~HasNumberWord(t) THEN t
    ELSE ReplaceDoubleSpaceFrom(
             SubSingleDigitsFrom(Strip(SubNumberPhrasesFrom(ExpandIdioms(t), 1)), 1), 1)

-----------------------------------------------------------------------------
(* 3. format_indian_currency and normalize_currency                        *)

\* the currency glyph of the source
RUPEE == "₹"

\* str.isdigit on the texts of the model: non-empty, decimal digits only
IsDigitStr(s) == Len(s) > 0 /\ \A p \in 1..Len(s) : IsDigitCh(Ch(s, p))

\* re.sub(r'(\d{2})(?=\d)', r'\1,', rest): scanning from the left, a comma after
\* every two digits that a digit follows
RECURSIVE GroupPairsFrom(_, _)
GroupPairsFrom(rest, p) ==
    IF p > Len(rest) THEN ""
    ELSE IF IsDigitCh(Ch(rest, p)) /\ IsDigitCh(Ch(rest, p + 1)) /\ IsDigitCh(Ch(rest, p + 2))
    THEN Sub(rest, p, p + 1) \o "," \o GroupPairsFrom(rest, p + 2)
    ELSE Ch(rest, p) \o GroupPairsFrom(rest, p + 1)

\* the grouping of the digits left of the last three
GroupRest(rest) == GroupPairsFrom(rest, 1)

format_indian_currency(num_str) ==
    LET n == Strip(num_str)
    IN IF ~IsDigitStr(n) THEN n
       ELSE IF Len(n) <= 3 THEN n
       ELSE GroupRest(Sub(n, 1, Len(n) - 3)) \o "," \o Sub(n, Len(n) - 2, Len(n))

\* The position after the longest run of digits starting at p (\d* greedy).
RECURSIVE SkipDigits(_, _)
SkipDigits(s, p) == IF p <= Len(s) /\ IsDigitCh(Ch(s, p)) THEN SkipDigits(s, p + 1) ELSE p

\* The position after the longest run of digits and commas starting at p ([\d,]* greedy).
RECURSIVE SkipDigitsCommas(_, _)
SkipDigitsCommas(s, p) ==
    IF p <= Len(s) /\ (IsDigitCh(Ch(s, p)) \/ Ch(s, p) = ",") THEN SkipDigitsCommas(s, p + 1) ELSE p

\* The end (exclusive) of group 1 of (\d[\d,]*\.?\d*) at p, 0 when no digit is at p.
AmountEnd(s, p) ==
    IF ~IsDigitCh(Ch(s, p)) THEN 0
    ELSE LET a == SkipDigitsCommas(s, p + 1)
         IN SkipDigits(s, IF Ch(s, a) = "." THEN a + 1 ELSE a)

\* (\d[\d,]*\.?\d*)\s*(rupees|rs)\b at p: the end of the match (exclusive), 0 when none.
MatchAmountWord(s, p) ==
    IF AmountEnd(s, p) = 0 THEN 0
    ELSE LET d == SkipSpaces(s, AmountEnd(s, p))
             i == FirstAlt(s, d, <<"rupees", "rs">>)
         IN IF i = 0 THEN 0 ELSE d + Len((<<"rupees", "rs">>)[i])

\* re.sub(r'(\d[\d,]*\.?\d*)\s*(rupees|rs)\b', r'₹\1', text, flags=re.IGNORECASE)
RECURSIVE SubAmountWordFrom(_, _)
SubAmountWordFrom(s, p) ==
    IF p > Len(s) THEN ""
    ELSE IF MatchAmountWord(s, p) > p
    THEN RUPEE \o Sub(s, p, AmountEnd(s, p) - 1) \o SubAmountWordFrom(s, MatchAmountWord(s, p))
    ELSE Ch(s, p) \o SubAmountWordFrom(s, p + 1)

RECURSIVE RemoveCommasFrom(_, _)
RemoveCommasFrom(s, p) == IF p > Len(s) THEN ""
                          ELSE IF Ch(s, p) = "," THEN RemoveCommasFrom(s, p + 1)
                          ELSE Ch(s, p) \o RemoveCommasFrom(s, p + 1)

\* format_match: the commas of group 1 removed, the digits re-grouped
format_match(num_part) == RUPEE \o format_indian_currency(RemoveCommasFrom(num_part, 1))

\* re.sub(r'₹\s*(\d[\d,]*)', format_match, s)
RECURSIVE SubSymbolAmountFrom(_, _)
SubSymbolAmountFrom(s, p) ==
    IF p > Len(s) THEN ""
    ELSE IF StartsWith(s, p, RUPEE) /\ IsDigitCh(Ch(s, SkipSpaces(s, p + Len(RUPEE))))
    THEN LET q == SkipSpaces(s, p + Len(RUPEE))
             e == SkipDigitsCommas(s, q + 1)
         IN format_match(Sub(s, q, e - 1)) \o SubSymbolAmountFrom(s, e)
    ELSE Ch(s, p) \o SubSymbolAmountFrom(s, p + 1)

normalize_currency(t) == SubSymbolAmountFrom(SubAmountWordFrom(t, 1), 1)

-----------------------------------------------------------------------------
(* 4. correct_names_with_lexicon                                           *)

\* the default of the threshold parameter
DEFAULT_THRESHOLD == 85

\* str.istitle from position p on: cased says a cased character was seen, prev
\* that the previous character was cased
RECURSIVE IsTitleFrom(_, _, _, _)
IsTitleFrom(t, p, prev, cased) ==
    IF p > Len(t) THEN cased
    ELSE IF IsUpperCh(Ch(t, p)) THEN (IF prev THEN FALSE ELSE IsTitleFrom(t, p + 1, TRUE, TRUE))
    ELSE IF IsLowerCh(Ch(t, p)) THEN (IF prev THEN IsTitleFrom(t, p + 1, TRUE, TRUE) ELSE FALSE)
    ELSE IsTitleFrom(t, p + 1, FALSE, cased)

IsTitle(t) == IsTitleFrom(t, 1, FALSE, FALSE)

Max(a, b) == IF a >= b THEN a ELSE b

\* One row of the longest-common-subsequence table, columns 1..j: the row of
\* character ca of the query against b, given the previous row.
RECURSIVE LcsRow(_, _, _, _)
LcsRow(prevrow, ca, b, j) ==
    IF j = 0 THEN <<>>
    ELSE LET row == LcsRow(prevrow, ca, b, j - 1)
             diag == IF j = 1 THEN 0 ELSE prevrow[j - 1]
             left == IF j = 1 THEN 0 ELSE row[j - 1]
         IN Append(row, IF ca = Ch(b, j) THEN diag + 1 ELSE Max(prevrow[j], left))

\* The row of the table after the first i characters of a.
RECURSIVE LcsTable(_, _, _)
LcsTable(a, b, i) ==
    IF i = 0 THEN [j \in 1..Len(b) |-> 0]
    ELSE LET prevrow == LcsTable(a, b, i - 1)
         IN LcsRow(prevrow, Ch(a, i), b, Len(prevrow))

\* Length of the longest common subsequence of a and b.
Lcs(a, b) == IF Len(a) = 0 \/ Len(b) = 0 THEN 0 ELSE LcsTable(a, b, Len(a))[Len(b)]

\* fuzz.ratio(a, b), the normalized Indel similarity 100 * 2*lcs / (len(a)+len(b)),
\* as the fraction <<numerator, denominator>>; 100 for two empty strings.
Ratio(a, b) == IF Len(a) + Len(b) = 0 THEN <<100, 1>> ELSE <<200 * Lcs(a, b), Len(a) + Len(b)>>

\* x >= y on fractions
RatioGeq(x, y) == x[1] * y[2] >= y[1] * x[2]

\* process.extractOne(t, names_lex, scorer=fuzz.ratio): the index of the best entry,
\* the first one among equals; 0 (None) for an empty lexicon.
extractOne(t, lex) ==
    IF Len(lex) = 0 THEN 0
    ELSE CHOOSE i \in 1..Len(lex) :
           /\ \A j \in 1..Len(lex) : RatioGeq(Ratio(t, lex[i]), Ratio(t, lex[j]))
           /\ \A j \in 1..(i - 1) : ~RatioGeq(Ratio(t, lex[j]), Ratio(t, lex[i]))

\* best_match and best_match[1] >= threshold
Accepts(t, lex, threshold) ==
    extractOne(t, lex) > 0 /\ RatioGeq(Ratio(t, lex[extractOne(t, lex)]), <<threshold, 1>>)

\* the body of the loop over the tokens: the token appended for t
CorrectToken(t, lex, threshold) ==
    IF IsTitle(t) /\ Accepts(t, lex, threshold) THEN lex[extractOne(t, lex)] ELSE t

RECURSIVE CorrectTokensFrom(_, _, _, _)
CorrectTokensFrom(tokens, i, lex, threshold) ==
    IF i > Len(tokens) THEN <<>>
    ELSE <<CorrectToken(tokens[i], lex, threshold)>> \o CorrectTokensFrom(tokens, i + 1, lex, threshold)

correct_names_with_lexicon(t, lex, threshold) == Join(CorrectTokensFrom(Split(t), 1, lex, threshold))

\* The matcher is called for t: one of its tokens is title-cased.
CallsMatcher(t) == \E i \in 1..Len(Split(t)) : IsTitle(Split(t)[i])

-----------------------------------------------------------------------------
(* 5. add_final_punctuation_and_capitalization                             *)

QUESTION_STARTS == <<"what", "who", "where", "when", "why", "how", "is", "can", "do", "are">>

\* s.endswith(('.', '?', '!'))
EndsWithTerminal(s) == Ch(s, Len(s)) \in {".", "?", "!"}

\* s.lower().strip().startswith((...))
StartsLikeQuestion(s) ==
    \E i \in 1..Len(QUESTION_STARTS) : StartsWith(Strip(Lower(s)), 1, QUESTION_STARTS[i])

\* text[0].upper() + text[1:]
Capitalize(t) == UpperCh(Ch(t, 1)) \o Sub(t, 2, Len(t))

add_final_punctuation_and_capitalization(t) ==
    IF Len(t) = 0 THEN ""
    ELSE IF EndsWithTerminal(Capitalize(t)) THEN Capitalize(t)
    ELSE IF StartsLikeQuestion(Capitalize(t)) THEN Capitalize(t) \o "?"
    ELSE Capitalize(t) \o "."

-----------------------------------------------------------------------------
(* generate_candidates                                                     *)

\* the cap of the two slices [:8]
CAP == 8

\* x in q, for a list q
InList(q, x) == \E i \in 1..Len(q) : q[i] = x

\* q[:n]
Take(q, n) == IF Len(q) <= n THEN q ELSE SubSeq(q, 1, n)

\* [c for c in list(candidates) if c]: the empty string is dropped
NonEmpty(cands) == {c \in cands : Len(c) > 0}

\* The longest length among the strings of S.
MaxLen(S) == CHOOSE n \in {Len(x) : x \in S} : \A y \in S : Len(y) <= n

\* sorted(list(set(out)), key=len, reverse=True): the sort is stable and the
\* iteration order of a set of strings follows the hash seed of the process, so
\* every order of the set with non-increasing lengths is a possible result.
RECURSIVE SortedOrders(_)
SortedOrders(S) ==
    IF S = {} THEN {<<>>}
    ELSE UNION {{<<x>> \o q : q \in SortedOrders(S \ {x})} : x \in {y \in S : Len(y) = MaxLen(S)}}

\* if text not in out: out.append(text)
AppendIfMissing_Never(o, t) == o

AppendIfMissing_Always(o, t) == Append(o, t)

AppendIfMissing(o, t) == IF InList(o, t) THEN o ELSE Append(o, t)

\* the list returned for one sorted order: the cap, the fallback append, the cap again
FinalList(sorted, t) == Take(AppendIfMissing(Take(sorted, CAP), t), CAP)

\* add_final_punctuation_and_capitalization as generate_candidates calls it
Punctuate_NoEmptyGuard(t) ==
    IF EndsWithTerminal(Capitalize(t)) THEN Capitalize(t)
    ELSE IF StartsLikeQuestion(Capitalize(t)) THEN Capitalize(t) \o "?"
    ELSE Capitalize(t) \o "."

Punctuate(t) == add_final_punctuation_and_capitalization(t)

\* The texts of k tokens or fewer over a vocabulary, joined by single spaces.
TokenTexts(vocab, k) == {Join(q) : q \in UNION {[1..n -> vocab] : n \in 0..k}}

GenMaxTokens == 2

MaxRuns == 2

GenVocab == {"Jonathon", "five", "rs"}

GenTexts == TokenTexts(GenVocab, GenMaxTokens) \cup {" ", "hello.", "Hello.", "is five apples"}

GenLexicons == {<<>>, <<"Jonathan", "jonathon">>}

Init ==
    /\ text \in GenTexts
    /\ names_lex \in GenLexicons
    /\ matcher_ok \in BOOLEAN
    /\ pc = "start"
    /\ ret = ""
    /\ candidates = {}
    /\ c1 = ""
    /\ c2 = ""
    /\ c3 = ""
    /\ out = <<>>
    /\ prev_out = <<>>
    /\ runs = 1

\* candidates = set(); candidates.add(text)
AddOriginal ==
    /\ pc = "start"
    /\ candidates' = {text}
    /\ pc' = "step1"
    /\ UNCHANGED <<text, names_lex, matcher_ok, ret, c1, c2, c3, out, prev_out, runs>>

\* c1 = convert_words_to_numbers(normalize_email(text)); candidates.add(c1)
Step1 ==
    /\ pc = "step1"
    /\ c1' = convert_words_to_numbers(normalize_email(text))
    /\ candidates' = candidates \cup {c1'}
    /\ pc' = "step2"
    /\ UNCHANGED <<text, names_lex, matcher_ok, ret, c2, c3, out, prev_out, runs>>

\* c2 = normalize_currency(c1); candidates.add(c2)
Step2 ==
    /\ pc = "step2"
    /\ c2' = normalize_currency(c1)
    /\ candidates' = candidates \cup {c2'}
    /\ pc' = "step3"
    /\ UNCHANGED <<text, names_lex, matcher_ok, ret, c1, c3, out, prev_out, runs>>

\* c3 = add_final_punctuation_and_capitalization(c2); candidates.add(c3)
Step3 ==
    /\ pc = "step3"
    /\ c3' = Punctuate(c2)
    /\ candidates' = candidates \cup {c3'}
    /\ pc' = "step4"
    /\ UNCHANGED <<text, names_lex, matcher_ok, ret, c1, c2, out, prev_out, runs>>

\* c4 = correct_names_with_lexicon(c3, names_lex); candidates.add(c4)
Step4 ==
    /\ pc = "step4"
    /\ matcher_ok \/ ~CallsMatcher(c3)
    /\ candidates' = candidates \cup {correct_names_with_lexicon(c3, names_lex, DEFAULT_THRESHOLD)}
    /\ pc' = "variant_a"
    /\ UNCHANGED <<text, names_lex, matcher_ok, ret, c1, c2, c3, out, prev_out, runs>>

\* process.extractOne raises inside correct_names_with_lexicon: nothing catches it,
\* neither there nor in generate_candidates, and the call ends without a result.
Step4Raises ==
    /\ pc = "step4"
    /\ ~matcher_ok /\ CallsMatcher(c3)
    /\ pc' = "raised"
    /\ UNCHANGED <<text, names_lex, matcher_ok, ret, candidates, c1, c2, c3, out, prev_out, runs>>

\* variant_a = add_final_punctuation_and_capitalization(text); candidates.add(variant_a)
VariantA ==
    /\ pc = "variant_a"
    /\ candidates' = candidates \cup {Punctuate(text)}
    /\ pc' = "variant_b"
    /\ UNCHANGED <<text, names_lex, matcher_ok, ret, c1, c2, c3, out, prev_out, runs>>

\* variant_b = punctuation(normalize_currency(convert_words_to_numbers(text)))
VariantB ==
    /\ pc = "variant_b"
    /\ candidates' = candidates \cup {Punctuate(normalize_currency(convert_words_to_numbers(text)))}
    /\ pc' = "finalize"
    /\ UNCHANGED <<text, names_lex, matcher_ok, ret, c1, c2, c3, out, prev_out, runs>>

\* the filter, the sort, the cap, the fallback append and the return
Finalize ==
    /\ pc = "finalize"
    /\ \E sorted \in SortedOrders(NonEmpty(candidates)) : out' = FinalList(sorted, text)
    /\ pc' = "returned"
    /\ UNCHANGED <<text, names_lex, matcher_ok, ret, candidates, c1, c2, c3, prev_out, runs>>

\* The caller calls generate_candidates again with the same text and lexicon (another
\* run of the program); the previous result is kept for comparison.
CallAgain ==
    /\ pc = "returned"
    /\ runs < MaxRuns
    /\ prev_out' = out
    /\ runs' = runs + 1
    /\ pc' = "start"
    /\ candidates' = {}
    /\ c1' = ""
    /\ c2' = ""
    /\ c3' = ""
    /\ out' = <<>>
    /\ UNCHANGED <<text, names_lex, matcher_ok, ret>>

Next ==
    \/ AddOriginal
    \/ Step1
    \/ Step2
    \/ Step3
    \/ Step4
    \/ Step4Raises
    \/ VariantA
    \/ VariantB
    \/ Finalize
    \/ CallAgain

Spec == Init /\ [][Next]_vars

-----------------------------------------------------------------------------
(* Claims about generate_candidates                                        *)

\* C1: whenever generate_candidates returns, the returned list contains the
\* original, unmodified input text (the empty and the whitespace-only text included).
C1_OriginalContained == pc = "returned" => InList(out, text)

C1_Witness == pc = "returned" /\ text = " " /\ InList(out, " ") /\ Len(out) >= 2

\* C2: the returned list has no two equal elements and at most CAP elements, also
\* when the original text was appended after the sort and the slice.
C2_DistinctAndCapped ==
    pc = "returned" =>
        /\ Len(out) <= CAP
        /\ \A i \in 1..Len(out) : \A j \in 1..Len(out) : i # j => out[i] # out[j]

C2_Witness == pc = "returned" /\ text = "" /\ out = <<"">>

\* C3 as claimed: for every input text, the empty string included, the returned
\* list has at least one element and every element is a non-empty string.
C3_AllNonEmpty ==
    pc = "returned" => Len(out) >= 1 /\ \A i \in 1..Len(out) : Len(out[i]) > 0

\* C3 as amended: the returned list has at least one element; for a non-empty input
\* text every element is a non-empty string, and for the empty input text the list
\* is exactly [""].
C3_NonEmptyUnlessEmptyInput ==
    pc = "returned" =>
        /\ Len(out) >= 1
        /\ text # "" => \A i \in 1..Len(out) : Len(out[i]) > 0
        /\ text = "" => out = <<"">>

C3_Witness == pc = "returned" /\ text # "" /\ Len(out) >= 3 /\ \A i \in 1..Len(out) : Len(out[i]) > 0

\* C4 as claimed: no exception escapes generate_candidates; a failing rule stage
\* (here the external fuzzy matcher) never ends the call without a returned list.
C4_NoExceptionEscapes == pc # "raised"

\* C5 as claimed: for a fixed text and lexicon every run returns the same candidates
\* in the same order.
C5_SameListEveryRun == (pc = "returned" /\ runs >= 2) => out = prev_out

-----------------------------------------------------------------------------
(* The rules called on their own: each specification draws the argument from a  *)
(* bounded set and applies one rule to it; ret holds the result.               *)

\* the variables a single rule call leaves alone
RuleFrame == UNCHANGED <<text, names_lex, matcher_ok, candidates, c1, c2, c3, out, prev_out, runs>>

RuleInit(texts, lexicons) ==
    /\ text \in texts
    /\ names_lex \in lexicons
    /\ matcher_ok = TRUE
    /\ pc = "start"
    /\ ret = ""
    /\ candidates = {}
    /\ c1 = ""
    /\ c2 = ""
    /\ c3 = ""
    /\ out = <<>>
    /\ prev_out = <<>>
    /\ runs = 1

(* convert_words_to_numbers *)

NumMaxTokens == 2

NumVocab == {"five", "seven", "nine", "twenty", "hundred", "thousand", "lakh", "and",
             "apples", "double", "triple", "oh", "o"}

NumTexts == TokenTexts(NumVocab, NumMaxTokens)
            \cup {"five lakh twenty thousand three hundred", "one crore five lakh",
                  "i have five apples", "two hundred and six rupees"}

InitNumber == RuleInit(NumTexts, {<<>>})

CallConvert ==
    /\ pc = "start"
    /\ ret' = convert_words_to_numbers(text)
    /\ pc' = "converted"
    /\ RuleFrame

NextNumber == CallConvert

SpecNumber == InitNumber /\ [][NextNumber]_vars

\* A token is a word of a number run: a unit word, a multiplier or 'and'.
IsRunWord(w) == WordIndex(RUN_WORDS, w) > 0

\* The index of the last token of the maximal run of run words that starts at i.
RECURSIVE RunEnd(_, _)
RunEnd(tokens, i) == IF i < Len(tokens) /\ IsRunWord(tokens[i + 1]) THEN RunEnd(tokens, i + 1) ELSE i

\* The tokens with every maximal run of run words replaced by one token, the decimal
\* string of result + current; every other token is kept as it is.
RECURSIVE ReplaceRunsFrom(_, _)
ReplaceRunsFrom(tokens, i) ==
    IF i > Len(tokens) THEN <<>>
    ELSE IF IsRunWord(tokens[i])
    THEN <<IntToStr(text2int(SubSeq(tokens, i, RunEnd(tokens, i))))>>
         \o ReplaceRunsFrom(tokens, RunEnd(tokens, i) + 1)
    ELSE <<tokens[i]>> \o ReplaceRunsFrom(tokens, i + 1)

\* The text is made of number words, 'and' and the plain word "apples"/"i"/"have"/
\* "rupees", and holds a unit word or a multiplier.
PlainNumberText(t) ==
    /\ \A i \in 1..Len(Split(t)) :
          IsRunWord(Split(t)[i]) \/ Split(t)[i] \in {"apples", "i", "have", "rupees"}
    /\ \E i \in 1..Len(Split(t)) : WordIndex(NUMBER_WORDS, Split(t)[i]) > 0

\* C6 as claimed: convert_words_to_numbers replaces every maximal run of consecutive
\* number words by the decimal string of result + current and leaves the words
\* around the run as they are.
C6_RunsReplacedByValue ==
    (pc = "converted" /\ PlainNumberText(text)) => ret = Join(ReplaceRunsFrom(Split(text), 1))

\* C7 as claimed: 'double X' gives the digit of X twice, 'triple X' three times,
\* and 'oh X' / 'o X' gives '0' followed by the digit, for every digit word X.
C7_IdiomsGiveSeparateDigits ==
    pc = "converted" =>
        \A i \in 1..10 :
            /\ text = "double " \o UNIT_WORDS[i] => ret = Ch(DIGITS, i) \o Ch(DIGITS, i)
            /\ text = "triple " \o UNIT_WORDS[i] => ret = Ch(DIGITS, i) \o Ch(DIGITS, i) \o Ch(DIGITS, i)
            /\ text \in {"oh " \o UNIT_WORDS[i], "o " \o UNIT_WORDS[i]} => ret = "0" \o Ch(DIGITS, i)

(* format_indian_currency and normalize_currency *)

MaxDigits == 7

CurDigits == {"0", "7"}

\* The strings of n digits or fewer over CurDigits.
RECURSIVE DigitStrings(_)
DigitStrings(n) ==
    IF n = 0 THEN {""}
    ELSE DigitStrings(n - 1) \cup {d \o w : d \in CurDigits, w \in {x \in DigitStrings(n - 1) : Len(x) = n - 1}}

CurTexts == DigitStrings(MaxDigits) \cup {"1234567", "123456", "500"}

InitCurrency == RuleInit(CurTexts, {<<>>})

CallFormat ==
    /\ pc = "start"
    /\ ret' = format_indian_currency(text)
    /\ pc' = "formatted"
    /\ RuleFrame

\* normalize_currency on the amount followed by a currency word
CallNormalizeCurrency ==
    /\ pc = "start"
    /\ ret' = normalize_currency(text \o " rupees")
    /\ pc' = "normalized"
    /\ RuleFrame

NextCurrency ==
    \/ CallFormat
    \/ CallNormalizeCurrency

SpecCurrency == InitCurrency /\ [][NextCurrency]_vars

\* The digits left of the last three, split into groups of two counted from the
\* right: only the leftmost group may hold a single digit.
RECURSIVE PairsFromRight(_)
PairsFromRight(rest) ==
    IF Len(rest) <= 2 THEN rest
    ELSE PairsFromRight(Sub(rest, 1, Len(rest) - 2)) \o "," \o Sub(rest, Len(rest) - 1, Len(rest))

\* The Indian grouping of a digit string.
IndianGrouping(d) ==
    IF Len(d) <= 3 THEN d
    ELSE PairsFromRight(Sub(d, 1, Len(d) - 3)) \o "," \o Sub(d, Len(d) - 2, Len(d))

\* C8 as claimed: for every string of decimal digits format_indian_currency returns
\* the Indian grouping (last three digits, then pairs counted from the right), and
\* normalize_currency returns the glyph followed by that grouping.
C8_IndianGrouping ==
    /\ (pc = "formatted" /\ IsDigitStr(text)) => ret = IndianGrouping(text)
    /\ (pc = "normalized" /\ IsDigitStr(text)) => ret = RUPEE \o IndianGrouping(text)

(* normalize_email *)

MaxLetters == 4

EmailLetters == {"j", "o", "n"}

EmailDomains == {"gmail", "x1"}

EmailTlds == {"com", "in"}

\* Spelled local parts of MaxLetters letters or fewer, then 'at' domain 'dot' tld.
EmailTexts ==
    {Join(q \o <<"at", d, "dot", t>>) :
        q \in UNION {[1..n -> EmailLetters] : n \in 0..MaxLetters},
        d \in EmailDomains, t \in EmailTlds}
    \cup {"john at gmail dot com", "j o h n at gmail dot com"}

InitEmail == RuleInit(EmailTexts, {<<>>})

CallNormalizeEmail ==
    /\ pc = "start"
    /\ ret' = normalize_email(text)
    /\ pc' = "normalized"
    /\ RuleFrame

NextEmail == CallNormalizeEmail

SpecEmail == InitEmail /\ [][NextEmail]_vars

\* The concatenation of the first n tokens.
RECURSIVE Concat(_, _)
Concat(tokens, n) == IF n = 0 THEN "" ELSE Concat(tokens, n - 1) \o tokens[n]

\* The text is n >= 3 single-letter tokens, then 'at', a domain, 'dot', a tld.
SpelledEmail(t) ==
    LET tokens == Split(t)
        n == Len(tokens) - 4
    IN /\ n >= 3
       /\ \A i \in 1..n : Len(tokens[i]) = 1 /\ IsAlpha(tokens[i])
       /\ tokens[n + 1] = "at"
       /\ tokens[n + 3] = "dot"

\* C9 as claimed: a run of three or more spelled letters followed by 'at' domain
\* 'dot' tld becomes letters@domain.tld, without spaces.
C9_SpelledEmail ==
    (pc = "normalized" /\ SpelledEmail(text)) =>
        LET tokens == Split(text)
            n == Len(tokens) - 4
        IN ret = Concat(tokens, n) \o "@" \o tokens[n + 2] \o "." \o tokens[n + 4]

(* correct_names_with_lexicon *)

NameMaxTokens == 2

NameVocab == {"Jonathan", "Jonathon", "jonathan", "went"}

NameTexts == TokenTexts(NameVocab, NameMaxTokens)

NameLexicons == {<<>>, <<"Jonathan">>, <<"jonathan">>, <<"Smith", "Jonathan">>,
                 <<"jonathan", "Jonathan">>}

InitName == RuleInit(NameTexts, NameLexicons)

CallCorrectNames ==
    /\ pc = "start"
    /\ ret' = correct_names_with_lexicon(text, names_lex, DEFAULT_THRESHOLD)
    /\ pc' = "corrected"
    /\ RuleFrame

NextName == CallCorrectNames

SpecName == InitName /\ [][NextName]_vars

\* C10 as claimed: a capitalized token whose best lexicon entry scores at or above
\* the threshold is emitted as that entry with its first letter in upper case (the
\* rest as stored or lower-cased), whatever the case the entry is stored in; every
\* other token is emitted unchanged.
C10_CasePreserved ==
    pc = "corrected" =>
        LET tokens == Split(text)
            outs == Split(ret)
        IN /\ Len(outs) = Len(tokens)
           /\ \A i \in 1..Len(tokens) :
                 IF IsTitle(tokens[i]) /\ Accepts(tokens[i], names_lex, DEFAULT_THRESHOLD)
                 THEN LET entry == names_lex[extractOne(tokens[i], names_lex)]
                      IN outs[i] \in {Capitalize(entry), Capitalize(Lower(entry))}
                 ELSE outs[i] = tokens[i]

====
